---- MODULE Spec2Model ----
(***************************************************************************)
(* A model of the personal-ai service: the configuration manager           *)
(* (src/src/core/config_manager.py), the engine wrapper                    *)
(* (src/src/core/ai_engine.py) and the HTTP handlers                       *)
(* (src/src/api/server.py).                                                *)
(*                                                                         *)
(* Python text is a sequence of one-character strings, so that strip(),    *)
(* lower() and the substring test `word in text` are computed on the       *)
(* characters.  A Python value is a tagged record (IntV, StrV, MapV, ...). *)
(* A call either returns a value, Ret(v), or raises, Raise(e).             *)
(***************************************************************************)
EXTENDS Integers, Sequences, FiniteSets, TLC

VARIABLES
  store,      \* the heap of configuration dictionaries: reference -> value
  mgrRef,     \* ConfigManager._config: the dictionary the manager holds
  engine,     \* the AIEngine object (phase, config, tokenizer, model, device, ...)
  last,       \* the most recent operation: its arguments and its outcome
  nSet,       \* how many set_value calls were made (bounded by MaxSetValues)
  loop        \* where start_interactive_mode is: "idle", "running" or "ended"

vars == << store, mgrRef, engine, last, nSet, loop >>

(***************************************************************************)
(* Bounds of the model.                                                    *)
(***************************************************************************)
\* set_value calls in one behaviour
MaxSetValues == 2

(***************************************************************************)
(* Text: str.strip, str.lower, `in`.                                       *)
(***************************************************************************)
\* The characters str.strip() removes that occur in the inputs of the model.
Whitespace == { " ", "\t", "\n" }

\* str.lower() on the letters that occur in the inputs of the model.
LowerChar(c) ==
  CASE c = "A" -> "a" [] c = "B" -> "b" [] c = "C" -> "c" [] c = "D" -> "d"
    [] c = "E" -> "e" [] c = "H" -> "h" [] c = "I" -> "i" [] c = "L" -> "l"
    [] c = "O" -> "o" [] c = "P" -> "p" [] c = "T" -> "t" [] c = "W" -> "w"
    [] c = "Y" -> "y"
    [] OTHER -> c

Lower(s) == [i \in 1..Len(s) |-> LowerChar(s[i])]

\* The first index of s that holds no whitespace (Len(s) + 1 when there is none).
FirstInk(s) ==
  IF \E i \in 1..Len(s) : s[i] \notin Whitespace
  THEN CHOOSE i \in 1..Len(s) :
         /\ s[i] \notin Whitespace
         /\ \A j \in 1..(i - 1) : s[j] \in Whitespace
  ELSE Len(s) + 1

\* The last index of s that holds no whitespace (0 when there is none).
LastInk(s) ==
  IF \E i \in 1..Len(s) : s[i] \notin Whitespace
  THEN CHOOSE i \in 1..Len(s) :
         /\ s[i] \notin Whitespace
         /\ \A j \in (i + 1)..Len(s) : s[j] \in Whitespace
  ELSE 0

\* str.strip(): s without its leading and trailing whitespace.
Strip(s) == SubSeq(s, FirstInk(s), LastInk(s))

\* `word in s`: word occurs in s as a contiguous run of characters.
Contains(s, word) ==
  \E i \in 0..(Len(s) - Len(word)) :
    \A j \in 1..Len(word) : s[i + j] = word[j]

\* any(word in s for word in words)
ContainsAny(s, words) == \E w \in words : Contains(s, w)

\* " ".join(parts)
RECURSIVE Join(_)
Join(parts) ==
  IF Len(parts) = 0 THEN << >>
  ELSE IF Len(parts) = 1 THEN parts[1]
  ELSE parts[1] \o << " " >> \o Join(Tail(parts))

(***************************************************************************)
(* The fixed texts of ai_engine.py.                                        *)
(***************************************************************************)
\* "I didn't catch that. Could you please repeat?"
ClarificationMessage ==
  << "I", " ", "d", "i", "d", "n", "'", "t", " ", "c", "a", "t", "c", "h", " ", "t",
     "h", "a", "t", ".", " ", "C", "o", "u", "l", "d", " ", "y", "o", "u", " ", "p",
     "l", "e", "a", "s", "e", " ", "r", "e", "p", "e", "a", "t", "?" >>

\* "I apologize, but I encountered an error. Please try again."
ErrorMessage ==
  << "I", " ", "a", "p", "o", "l", "o", "g", "i", "z", "e", ",", " ", "b", "u", "t",
     " ", "I", " ", "e", "n", "c", "o", "u", "n", "t", "e", "r", "e", "d", " ", "a",
     "n", " ", "e", "r", "r", "o", "r", ".", " ", "P", "l", "e", "a", "s", "e", " ",
     "t", "r", "y", " ", "a", "g", "a", "i", "n", "." >>

\* "Hello! I'm your personal AI assistant. How can I help you today?"
GreetingMessage ==
  << "H", "e", "l", "l", "o", "!", " ", "I", "'", "m", " ", "y", "o", "u", "r", " ",
     "p", "e", "r", "s", "o", "n", "a", "l", " ", "A", "I", " ", "a", "s", "s", "i",
     "s", "t", "a", "n", "t", ".", " ", "H", "o", "w", " ", "c", "a", "n", " ", "I",
     " ", "h", "e", "l", "p", " ", "y", "o", "u", " ", "t", "o", "d", "a", "y", "?" >>

\* "I'm doing well, thank you for asking! I'm here and ready to help."
HowAreYouMessage ==
  << "I", "'", "m", " ", "d", "o", "i", "n", "g", " ", "w", "e", "l", "l", ",", " ",
     "t", "h", "a", "n", "k", " ", "y", "o", "u", " ", "f", "o", "r", " ", "a", "s",
     "k", "i", "n", "g", "!", " ", "I", "'", "m", " ", "h", "e", "r", "e", " ", "a",
     "n", "d", " ", "r", "e", "a", "d", "y", " ", "t", "o", " ", "h", "e", "l", "p",
     "." >>

\* "I'm currently in development, but I'm designed to be your personal AI assistant. I can chat with you and help with various tasks as I continue to learn!"
CapabilitiesMessage ==
  << "I", "'", "m", " ", "c", "u", "r", "r", "e", "n", "t", "l", "y", " ", "i", "n",
     " ", "d", "e", "v", "e", "l", "o", "p", "m", "e", "n", "t", ",", " ", "b", "u",
     "t", " ", "I", "'", "m", " ", "d", "e", "s", "i", "g", "n", "e", "d", " ", "t",
     "o", " ", "b", "e", " ", "y", "o", "u", "r", " ", "p", "e", "r", "s", "o", "n",
     "a", "l", " ", "A", "I", " ", "a", "s", "s", "i", "s", "t", "a", "n", "t", ".",
     " ", "I", " ", "c", "a", "n", " ", "c", "h", "a", "t", " ", "w", "i", "t", "h",
     " ", "y", "o", "u", " ", "a", "n", "d", " ", "h", "e", "l", "p", " ", "w", "i",
     "t", "h", " ", "v", "a", "r", "i", "o", "u", "s", " ", "t", "a", "s", "k", "s",
     " ", "a", "s", " ", "I", " ", "c", "o", "n", "t", "i", "n", "u", "e", " ", "t",
     "o", " ", "l", "e", "a", "r", "n", "!" >>

\* "I'm not sure how to respond to that."
NotSureMessage ==
  << "I", "'", "m", " ", "n", "o", "t", " ", "s", "u", "r", "e", " ", "h", "o", "w",
     " ", "t", "o", " ", "r", "e", "s", "p", "o", "n", "d", " ", "t", "o", " ", "t",
     "h", "a", "t", "." >>

\* "I'm currently in development mode. How can I help you today?"
Canned1 ==
  << "I", "'", "m", " ", "c", "u", "r", "r", "e", "n", "t", "l", "y", " ", "i", "n",
     " ", "d", "e", "v", "e", "l", "o", "p", "m", "e", "n", "t", " ", "m", "o", "d",
     "e", ".", " ", "H", "o", "w", " ", "c", "a", "n", " ", "I", " ", "h", "e", "l",
     "p", " ", "y", "o", "u", " ", "t", "o", "d", "a", "y", "?" >>

\* "I'm learning and growing! What would you like to discuss?"
Canned2 ==
  << "I", "'", "m", " ", "l", "e", "a", "r", "n", "i", "n", "g", " ", "a", "n", "d",
     " ", "g", "r", "o", "w", "i", "n", "g", "!", " ", "W", "h", "a", "t", " ", "w",
     "o", "u", "l", "d", " ", "y", "o", "u", " ", "l", "i", "k", "e", " ", "t", "o",
     " ", "d", "i", "s", "c", "u", "s", "s", "?" >>

\* "I'm here to assist you. What's on your mind?"
Canned3 ==
  << "I", "'", "m", " ", "h", "e", "r", "e", " ", "t", "o", " ", "a", "s", "s", "i",
     "s", "t", " ", "y", "o", "u", ".", " ", "W", "h", "a", "t", "'", "s", " ", "o",
     "n", " ", "y", "o", "u", "r", " ", "m", "i", "n", "d", "?" >>

\* "Thank you for your patience as I develop my capabilities."
Canned4 ==
  << "T", "h", "a", "n", "k", " ", "y", "o", "u", " ", "f", "o", "r", " ", "y", "o",
     "u", "r", " ", "p", "a", "t", "i", "e", "n", "c", "e", " ", "a", "s", " ", "I",
     " ", "d", "e", "v", "e", "l", "o", "p", " ", "m", "y", " ", "c", "a", "p", "a",
     "b", "i", "l", "i", "t", "i", "e", "s", "." >>

(***************************************************************************)
(* Python values and call outcomes.                                        *)
(***************************************************************************)
NoneV == [kind |-> "none"]
BoolV(b) == [kind |-> "bool", b |-> b]
IntV(n) == [kind |-> "int", n |-> n]
\* The float num/den (den > 0).
FloatV(num, den) == [kind |-> "float", num |-> num, den |-> den]
\* float('nan'), which yaml.safe_load reads from `.nan`.
NaNV == [kind |-> "nan"]
StrV(s) == [kind |-> "str", s |-> s]
ListV(items) == [kind |-> "list", items |-> items]
\* A dict: a function from its keys (strings) to their values.
MapV(m) == [kind |-> "map", m |-> m]
EmptyMap == MapV(<< >>)

IsMap(v) == v.kind = "map"
Keys(v) == DOMAIN v.m

\* The outcome of a call: a returned value or a raised exception.
Ret(v) == [raised |-> FALSE, val |-> v]
Raise(e) == [raised |-> TRUE, exc |-> e]

\* An exception: its class and str(e).
KeyError(key) == [type |-> "KeyError", msg |-> "'" \o key \o "'"]
TypeError(msg) == [type |-> "TypeError", msg |-> msg]
AttributeError(msg) == [type |-> "AttributeError", msg |-> msg]
\* An error raised inside the model-inference library.
LibraryError == [type |-> "RuntimeError", msg |-> "library error"]

\* type(v).__name__
TypeName(v) ==
  CASE v.kind = "none" -> "NoneType"
    [] v.kind = "bool" -> "bool"
    [] v.kind = "int" -> "int"
    [] v.kind \in { "float", "nan" } -> "float"
    [] v.kind = "str" -> "str"
    [] v.kind = "list" -> "list"
    [] OTHER -> "dict"

\* d with d[key] = v
MapSet(d, key, v) ==
  MapV([k \in Keys(d) \cup {key} |-> IF k = key THEN v ELSE d.m[k]])

\* d after d.pop(key, None)
MapPop(d, key) == MapV([k \in Keys(d) \ {key} |-> d.m[k]])

\* value[key] for a string key: only a dict holding the key has it.
Subscript(value, key) ==
  IF IsMap(value)
  THEN IF key \in Keys(value) THEN Ret(value.m[key]) ELSE Raise(KeyError(key))
  ELSE Raise(TypeError(
         CASE value.kind = "str" -> "string indices must be integers"
           [] value.kind = "list" -> "list indices must be integers or slices, not str"
           [] OTHER -> "'" \o TypeName(value) \o "' object is not subscriptable"))

\* `key not in value` for a string key. (In a string it is the substring test:
\* no string of the model holds a key of a path.)
NotIn(key, value) ==
  CASE IsMap(value) -> Ret(key \notin Keys(value))
    [] value.kind = "list" ->
         Ret(StrV(key) \notin { value.items[i] : i \in 1..Len(value.items) })
    [] value.kind = "str" -> Ret(TRUE)
    [] OTHER ->
         Raise(TypeError("argument of type '" \o TypeName(value) \o "' is not iterable"))

\* v < k and v > k for an integer literal k.
PyLess(v, k) ==
  CASE v.kind = "int" -> Ret(v.n < k)
    [] v.kind = "bool" -> Ret((IF v.b THEN 1 ELSE 0) < k)
    [] v.kind = "float" -> Ret(v.num < k * v.den)
    [] v.kind = "nan" -> Ret(FALSE)
    [] OTHER -> Raise(TypeError(
         "'<' not supported between instances of '" \o TypeName(v) \o "' and 'int'"))

PyGreater(v, k) ==
  CASE v.kind = "int" -> Ret(v.n > k)
    [] v.kind = "bool" -> Ret((IF v.b THEN 1 ELSE 0) > k)
    [] v.kind = "float" -> Ret(v.num > k * v.den)
    [] v.kind = "nan" -> Ret(FALSE)
    [] OTHER -> Raise(TypeError(
         "'>' not supported between instances of '" \o TypeName(v) \o "' and 'int'"))

(***************************************************************************)
(* ConfigManager.                                                          *)
(***************************************************************************)
\* _get_default_config()
DefaultConfig ==
  MapV(
    "model" :> MapV(
        "name" :> StrV("microsoft/DialoGPT-small")
     @@ "architecture" :> StrV("transformer")
     @@ "max_length" :> IntV(1024)
     @@ "temperature" :> FloatV(7, 10)
     @@ "top_p" :> FloatV(9, 10)
     @@ "device" :> StrV("auto"))
 @@ "training" :> MapV(
        "batch_size" :> IntV(4)
     @@ "learning_rate" :> FloatV(5, 100000)
     @@ "num_epochs" :> IntV(3)
     @@ "warmup_steps" :> IntV(500)
     @@ "gradient_checkpointing" :> BoolV(TRUE)
     @@ "mixed_precision" :> BoolV(TRUE))
 @@ "data" :> MapV(
        "max_samples" :> IntV(10000)
     @@ "validation_split" :> FloatV(1, 10)
     @@ "preprocessing" :> MapV(
            "lowercase" :> BoolV(FALSE)
         @@ "remove_special_chars" :> BoolV(FALSE)
         @@ "max_token_length" :> IntV(512)))
 @@ "inference" :> MapV(
        "batch_size" :> IntV(1)
     @@ "beam_size" :> IntV(1)
     @@ "max_new_tokens" :> IntV(128)
     @@ "do_sample" :> BoolV(TRUE)
     @@ "early_stopping" :> BoolV(TRUE))
 @@ "paths" :> MapV(
        "data_dir" :> StrV("./data")
     @@ "model_dir" :> StrV("./models")
     @@ "logs_dir" :> StrV("./logs")
     @@ "cache_dir" :> StrV("./cache"))
 @@ "api" :> MapV(
        "host" :> StrV("0.0.0.0")
     @@ "port" :> IntV(8000)
     @@ "cors_origins" :> ListV(<< StrV("http://localhost:3000") >>))
 @@ "logging" :> MapV(
        "level" :> StrV("INFO")
     @@ "format" :> StrV("{time} | {level} | {name}:{function}:{line} - {message}")
     @@ "file_rotation" :> StrV("1 day")
     @@ "file_retention" :> StrV("30 days"))
 @@ "privacy" :> MapV(
        "local_processing" :> BoolV(TRUE)
     @@ "data_encryption" :> BoolV(FALSE)
     @@ "anonymize_logs" :> BoolV(TRUE)
     @@ "retention_days" :> IntV(90)))

\* The configuration of the tests' fixture: the sections the engine reads.
FixtureConfig ==
  MapV(
    "model" :> MapV(
        "name" :> StrV("microsoft/DialoGPT-small")
     @@ "temperature" :> FloatV(7, 10)
     @@ "top_p" :> FloatV(9, 10)
     @@ "max_length" :> IntV(1024)
     @@ "device" :> StrV("cpu"))
 @@ "inference" :> MapV(
        "max_new_tokens" :> IntV(128)
     @@ "do_sample" :> BoolV(TRUE)))

\* key_path.split('.'): a path is written as a sequence of pieces, each the
\* separator "." or a run of characters that holds no separator.
RECURSIVE SplitAcc(_, _, _)
SplitAcc(rest, cur, acc) ==
  IF rest = << >> THEN Append(acc, cur)
  ELSE IF Head(rest) = "." THEN SplitAcc(Tail(rest), "", Append(acc, cur))
  ELSE SplitAcc(Tail(rest), cur \o Head(rest), acc)

Split(key_path) == SplitAcc(key_path, "", << >>)

\* The loop of get_value: value = value[key] for each key, until one raises.
RECURSIVE Walk(_, _)
Walk(value, keys) ==
  IF keys = << >> THEN Ret(value)
  ELSE LET r == Subscript(value, Head(keys))
       IN  IF r.raised THEN r ELSE Walk(r.val, Tail(keys))

\* An except clause that names KeyError alone.
GetValueCatchesKeyError == { "KeyError" }

\* The exceptions get_value catches.
GetValueCatches == { "KeyError", "TypeError" }

\* ConfigManager.get_value(key_path, default) on the configuration config.
get_value(config, key_path, default) ==
  LET r == Walk(config, Split(key_path))
  IN  IF r.raised /\ r.exc.type \in GetValueCatches THEN Ret(default) ELSE r

\* A loop that assigns config[key] = {} at every intermediate key, present or
\* not.
RECURSIVE SetAtFresh(_, _, _)
SetAtFresh(config, keys, value) ==
  IF ~IsMap(config)
  THEN Raise(TypeError(
         "'" \o TypeName(config) \o "' object does not support item assignment"))
  ELSE IF Len(keys) = 1 THEN Ret(MapSet(config, keys[1], value))
  ELSE LET r == SetAtFresh(EmptyMap, Tail(keys), value)
       IN  Ret(MapSet(config, Head(keys), r.val))

\* The loop and the last assignment of set_value on the dict config: the dict
\* after the call, or the exception the call raises (nothing is written then:
\* an intermediate dict is created only above dicts).
RECURSIVE SetAt(_, _, _)
SetAt(config, keys, value) ==
  IF Len(keys) = 1
  THEN IF IsMap(config) THEN Ret(MapSet(config, keys[1], value))
       ELSE Raise(TypeError(
              "'" \o TypeName(config) \o "' object does not support item assignment"))
  ELSE LET absent == NotIn(Head(keys), config)
       IN  IF absent.raised THEN absent
           ELSE IF ~IsMap(config)
                THEN Raise(TypeError(
                       "'" \o TypeName(config) \o "' object does not support item assignment"))
           ELSE LET child == IF absent.val THEN EmptyMap ELSE config.m[Head(keys)]
                    r == SetAt(child, Tail(keys), value)
                IN  IF r.raised THEN r
                    ELSE Ret(MapSet(config, Head(keys), r.val))

\* ConfigManager.set_value(key_path, value) on the configuration config.
set_value(config, key_path, value) == SetAt(config, Split(key_path), value)

\* validate_config's required_sections, in the order they are tested.
required_sections == << "model", "inference", "paths", "api", "logging" >>

\* The range tests of validate_config, once every required section is there.
ValidateRanges(config) ==
  LET model == Subscript(config, "model")
      t == IF model.raised THEN model ELSE Subscript(model.val, "temperature")
      tLow == IF t.raised THEN t ELSE PyLess(t.val, 0)
      tHigh == IF t.raised THEN t ELSE PyGreater(t.val, 2)
      api == Subscript(config, "api")
      p == IF api.raised THEN api ELSE Subscript(api.val, "port")
      pLow == IF p.raised THEN p ELSE PyLess(p.val, 1)
      pHigh == IF p.raised THEN p ELSE PyGreater(p.val, 65535)
  IN  IF tLow.raised THEN tLow
      ELSE IF tLow.val THEN Ret(FALSE)
      ELSE IF tHigh.raised THEN tHigh
      ELSE IF tHigh.val THEN Ret(FALSE)
      ELSE IF pLow.raised THEN pLow
      ELSE IF pLow.val THEN Ret(FALSE)
      ELSE IF pHigh.raised THEN pHigh
      ELSE IF pHigh.val THEN Ret(FALSE)
      ELSE Ret(TRUE)

\* ConfigManager.validate_config() on the configuration config.
validate_config(config) ==
  LET tests == [i \in 1..Len(required_sections) |-> NotIn(required_sections[i], config)]
      Stops(i) == tests[i].raised \/ tests[i].val
  IN  IF \E i \in 1..Len(tests) : Stops(i)
      THEN LET first == CHOOSE i \in 1..Len(tests) :
                          Stops(i) /\ \A j \in 1..(i - 1) : ~Stops(j)
           IN  IF tests[first].raised THEN tests[first] ELSE Ret(FALSE)
      ELSE ValidateRanges(config)

\* The references of the configuration dictionaries that outlive a call, and
\* the one of a dictionary local to a call.
Refs == { "cfg", "cfg2" }
LocalRef == "local"

\* What the heap holds at a reference no object has.
Free == [kind |-> "free"]

\* _load_config(): the value assigned to self._config.  file says whether
\* config_path exists, whether opening and parsing it succeeds, and what
\* yaml.safe_load returns.
load_config(file) ==
  IF ~file.exists THEN DefaultConfig
  ELSE IF ~file.readable THEN DefaultConfig
  ELSE file.content

\* A loader that refills the dictionary the manager already holds.
SameDict(held, in_use) == held

\* The reference of the object _load_config assigns to self._config: a new
\* object, at a reference nothing in use holds (held is the manager's
\* reference, in_use the references other objects hold).
NewDict(held, in_use) ==
  IF held \notin in_use THEN held ELSE CHOOSE r \in Refs : r \notin in_use

\* reload_config() on the heap: the heap after it and the manager's reference.
\* A dictionary nothing refers to any more is dropped.
reload_config(heap, held, in_use, file) ==
  LET ref == NewDict(held, in_use)
  IN  [ref |-> ref,
       heap |-> [r \in Refs |-> IF r = ref THEN load_config(file)
                                ELSE IF r \in in_use THEN heap[r]
                                ELSE Free]]

(***************************************************************************)
(* AIEngine.                                                               *)
(***************************************************************************)
\* The canned responses _setup_fallback_system installs.
FallbackResponses == << Canned1, Canned2, Canned3, Canned4 >>

\* The keyword groups of _fallback_response, written as the code writes them.
GreetingWords ==
  { << "h", "e", "l", "l", "o" >>, << "h", "i" >>, << "h", "e", "y" >> }

HowAreYouWords ==
  { << "h", "o", "w", " ", "a", "r", "e", " ", "y", "o", "u" >>,
    << "h", "o", "w", " ", "d", "o", " ", "y", "o", "u", " ", "f", "e", "e", "l" >> }

CapabilitiesWords ==
  { << "w", "h", "a", "t", " ", "c", "a", "n", " ", "y", "o", "u", " ", "d", "o" >>,
    << "h", "e", "l", "p" >>,
    << "c", "a", "p", "a", "b", "i", "l", "i", "t", "i", "e", "s" >> }

\* An attribute that was never assigned, and one that holds a list.
Unset == [set |-> FALSE]
Assigned(items) == [set |-> TRUE, items |-> items]

\* The engine before AIEngine(...) is called.
NoEngine ==
  [phase |-> "absent", config |-> "none", tokenizer |-> "None", model |-> "None",
   device |-> NoneV, fallback_responses |-> Unset]

\* A device choice that asks for mps before cuda.
get_device_mps_first(config, available) ==
  LET model == Subscript(config, "model")
      device_config == IF model.raised THEN model ELSE Subscript(model.val, "device")
  IN  IF device_config.raised THEN device_config
      ELSE IF device_config.val = StrV("auto")
           THEN IF available.mps THEN Ret(StrV("mps"))
                ELSE IF available.cuda THEN Ret(StrV("cuda"))
                ELSE Ret(StrV("cpu"))
           ELSE device_config

\* _get_device(): the configured device, or the best one torch offers.
get_device(config, available) ==
  LET model == Subscript(config, "model")
      device_config == IF model.raised THEN model ELSE Subscript(model.val, "device")
  IN  IF device_config.raised THEN device_config
      ELSE IF device_config.val = StrV("auto")
           THEN IF available.cuda THEN Ret(StrV("cuda"))
                ELSE IF available.mps THEN Ret(StrV("mps"))
                ELSE Ret(StrV("cpu"))
           ELSE device_config

\* A fallback set-up that forgets the tokenizer already loaded.
setup_fallback_keeps_tokenizer(e) ==
  [e EXCEPT !.model = "None", !.fallback_responses = Assigned(FallbackResponses)]

\* _setup_fallback_system()
setup_fallback_system(e) ==
  [e EXCEPT !.model = "None", !.tokenizer = "None",
            !.fallback_responses = Assigned(FallbackResponses)]

\* The steps of _load_model that call the library, in order.
LoadSteps == << "tokenizer", "model", "to", "eval" >>
\* What the library does during _load_model: every step succeeds ("ok"), or
\* the named step raises.
LoadOutcomes == { "ok" } \cup { LoadSteps[i] : i \in 1..Len(LoadSteps) }

\* _load_model(): the attributes assigned before the failing step stay
\* assigned until the handler of the exception runs.
load_model(e, failAt) ==
  LET assigned ==
        [e EXCEPT !.tokenizer = IF failAt = "tokenizer" THEN "None" ELSE "loaded",
                  !.model = IF failAt \in { "tokenizer", "model" } THEN "None"
                            ELSE "loaded"]
  IN  IF failAt = "ok" THEN assigned ELSE setup_fallback_system(assigned)

\* AIEngine.__init__(config_manager): the engine, or the exception raised.
AIEngineInit(ref, config, available, failAt) ==
  LET device == get_device(config, available)
  IN  IF device.raised THEN device
      ELSE Ret(load_model(
             [phase |-> "ready", config |-> ref, tokenizer |-> "None",
              model |-> "None", device |-> device.val,
              fallback_responses |-> Unset],
             failAt))

\* random.choice(self.fallback_responses), pick being the draw.
RandomChoice(e, pick) ==
  IF ~e.fallback_responses.set
  THEN Raise(AttributeError("'AIEngine' object has no attribute 'fallback_responses'"))
  ELSE LET items == e.fallback_responses.items
       IN  Ret(items[((pick - 1) % Len(items)) + 1])

\* A keyword matcher that tests the 'how are you' group before the greetings.
fallback_response_reordered(e, user_input, pick) ==
  LET user_lower == Lower(user_input)
  IN  IF ContainsAny(user_lower, HowAreYouWords) THEN Ret(HowAreYouMessage)
      ELSE IF ContainsAny(user_lower, GreetingWords) THEN Ret(GreetingMessage)
      ELSE IF ContainsAny(user_lower, CapabilitiesWords) THEN Ret(CapabilitiesMessage)
      ELSE RandomChoice(e, pick)

\* _fallback_response(user_input)
fallback_response(e, user_input, pick) ==
  LET user_lower == Lower(user_input)
  IN  IF ContainsAny(user_lower, GreetingWords) THEN Ret(GreetingMessage)
      ELSE IF ContainsAny(user_lower, HowAreYouWords) THEN Ret(HowAreYouMessage)
      ELSE IF ContainsAny(user_lower, CapabilitiesWords) THEN Ret(CapabilitiesMessage)
      ELSE RandomChoice(e, pick)

\* How many entries of the history _generate_model_response keeps.
ContextMessages == 5

\* s[:n]: the first n elements instead of the last.
FirstN(s, n) == IF Len(s) <= n THEN s ELSE SubSeq(s, 1, n)

\* s[-n:]
LastN(s, n) == IF Len(s) <= n THEN s ELSE SubSeq(s, Len(s) - n + 1, Len(s))

\* config[section][key]
Lookup(config, section, key) ==
  LET s == Subscript(config, section)
  IN  IF s.raised THEN s ELSE Subscript(s.val, key)

\* _generate_model_response(user_input, conversation_history).  lib is what the
\* library does: "encode" or "generate" raises, or decode returns lib.text.
\* The result holds the outcome and the calls made to the library.
generate_model_response(config, user_input, conversation_history, lib) ==
  LET full_input ==
        IF Len(conversation_history) > 0
        THEN Join(LastN(conversation_history, ContextMessages)) \o << " " >> \o user_input
        ELSE user_input
      max_length == Lookup(config, "model", "max_length")
      max_new_tokens == Lookup(config, "inference", "max_new_tokens")
      temperature == Lookup(config, "model", "temperature")
      top_p == Lookup(config, "model", "top_p")
      do_sample == Lookup(config, "inference", "do_sample")
      encode == [fn |-> "encode", full_input |-> full_input,
                 params |-> [max_length |-> max_length.val]]
      generate == [fn |-> "generate", full_input |-> full_input,
                   params |-> [max_new_tokens |-> max_new_tokens.val,
                               temperature |-> temperature.val,
                               top_p |-> top_p.val,
                               do_sample |-> do_sample.val]]
      response == Strip(lib.text)
  IN  IF max_length.raised THEN [out |-> max_length, calls |-> << >>]
      ELSE IF lib.fails = "encode"
           THEN [out |-> Raise(LibraryError), calls |-> << encode >>]
      ELSE IF max_new_tokens.raised THEN [out |-> max_new_tokens, calls |-> << encode >>]
      ELSE IF temperature.raised THEN [out |-> temperature, calls |-> << encode >>]
      ELSE IF top_p.raised THEN [out |-> top_p, calls |-> << encode >>]
      ELSE IF do_sample.raised THEN [out |-> do_sample, calls |-> << encode >>]
      ELSE IF lib.fails = "generate"
           THEN [out |-> Raise(LibraryError), calls |-> << encode, generate >>]
      ELSE [out |-> Ret(IF response # << >> THEN response ELSE NotSureMessage),
            calls |-> << encode, generate >>]

\* A generate_response without its try/except: the exception passes through.
CatchNothing(r) == r

\* The try/except of generate_response around r, the outcome of its body.
CatchAll(r) == IF r.raised THEN Ret(ErrorMessage) ELSE r

\* A blank test that forgets strip(): `not user_input`.
IsBlankNoStrip(user_input) == user_input = << >>

\* `not user_input.strip()`
IsBlank(user_input) == Strip(user_input) = << >>

\* generate_response(user_input, conversation_history): the outcome, which of
\* the two generators was invoked, the calls made to the library, and whether
\* the except clause ran.
generate_response(e, config, user_input, conversation_history, lib, pick) ==
  IF IsBlank(user_input)
  THEN [out |-> Ret(ClarificationMessage), invoked |-> "none", calls |-> << >>,
        caught |-> FALSE]
  ELSE IF e.model = "None"
       THEN LET r == fallback_response(e, user_input, pick)
            IN  [out |-> CatchAll(r), invoked |-> "fallback", calls |-> << >>,
                 caught |-> r.raised]
       ELSE LET g == generate_model_response(config, user_input, conversation_history, lib)
            IN  [out |-> CatchAll(g.out), invoked |-> "model", calls |-> g.calls,
                 caught |-> g.out.raised]

\* An except clause that gives the model up: after a failed generation the
\* engine is in fallback mode.
after_generate_gives_up(e, g) ==
  IF g.caught THEN [e EXCEPT !.model = "None", !.tokenizer = "None"] ELSE e

\* The engine after the generate_response call g: the method and the two
\* generators assign no attribute of self, and the except clause only logs and
\* returns the apology.
after_generate(e, g) == e

\* The value the engine reports as the parameter count of the loaded model.
ParameterCount == [kind |-> "opaque", what |-> "sum(p.numel() for p in parameters())"]

\* dict.get(key): the value, or None when the key is missing.
DictGet(value, key) ==
  IF ~IsMap(value)
  THEN Raise(AttributeError("'" \o TypeName(value) \o "' object has no attribute 'get'"))
  ELSE IF key \in Keys(value) THEN Ret(value.m[key]) ELSE Ret(NoneV)

\* A get_model_info whose test of self.model is inverted.
get_model_info_inverted(e, config) ==
  IF e.model # "None"
  THEN Ret(MapV("status" :> StrV("fallback") @@ "model_name" :> StrV("none")))
  ELSE LET model == Subscript(config, "model")
           name == IF model.raised THEN model ELSE DictGet(model.val, "name")
       IN  IF name.raised THEN name
           ELSE Ret(MapV("status" :> StrV("loaded")
                      @@ "model_name" :> name.val
                      @@ "device" :> e.device
                      @@ "parameters" :> ParameterCount))

\* get_model_info()
get_model_info(e, config) ==
  IF e.model = "None"
  THEN Ret(MapV("status" :> StrV("fallback") @@ "model_name" :> StrV("none")))
  ELSE LET model == Subscript(config, "model")
           name == IF model.raised THEN model ELSE DictGet(model.val, "name")
       IN  IF name.raised THEN name
           ELSE Ret(MapV("status" :> StrV("loaded")
                      @@ "model_name" :> name.val
                      @@ "device" :> e.device
                      @@ "parameters" :> ParameterCount))

\* clear_cache(): whether torch.cuda.empty_cache() is called.
clear_cache(e) == e.device = StrV("cuda")

(***************************************************************************)
(* The HTTP handlers of create_app.                                        *)
(***************************************************************************)
TextV(chars) == [kind |-> "text", chars |-> chars]
\* time.time()
Timestamp == [kind |-> "opaque", what |-> "time.time()"]

\* What a handler gives the framework: a response, an HTTPException it raised
\* itself, or an exception it did not catch.
Response(body) == [kind |-> "response", status |-> 200, body |-> body]
HTTPException(status_code, detail) ==
  [kind |-> "http_exception", status |-> status_code, detail |-> detail]
Uncaught(e) == [kind |-> "uncaught", exc |-> e]

\* `except Exception as e: raise HTTPException(status_code=500, detail=str(e))`
\* around r, the outcome of the handler's body.
Guarded(r) == IF r.raised THEN HTTPException(500, r.exc.msg) ELSE Response(r.val)

\* A handler whose body is not inside a try.
Unguarded(r) == IF r.raised THEN Uncaught(r.exc) ELSE Response(r.val)

\* GET /health
health_check(e, config) ==
  LET model_info == get_model_info(e, config)
  IN  Unguarded(
        IF model_info.raised THEN model_info
        ELSE Ret(MapV("status" :> StrV("healthy")
                   @@ "timestamp" :> Timestamp
                   @@ "version" :> StrV("1.0.0")
                   @@ "model_status" :> (IF "status" \in Keys(model_info.val)
                                         THEN model_info.val.m["status"]
                                         ELSE StrV("unknown")))))

\* How many messages of the request's history the chat handler forwards.
HistoryWindow == 10

\* f"{msg.role}: {msg.content}"
FormatMessage(msg) == msg.role \o << ":", " " >> \o msg.content

\* The history the chat handler passes to the engine.
ChatHistory(request) ==
  LET kept == LastN(request.conversation_history, HistoryWindow)
  IN  [i \in 1..Len(kept) |-> FormatMessage(kept[i])]

\* A chat handler that lets the request override the configured temperature
\* and max_new_tokens.
chat_overriding(e, config, request, lib, pick) ==
  LET t == IF request.temperature = NoneV THEN config
           ELSE MapSet(config, "model",
                       MapSet(config.m["model"], "temperature", request.temperature))
      c == IF request.max_tokens = NoneV THEN t
           ELSE MapSet(t, "inference",
                       MapSet(t.m["inference"], "max_new_tokens", request.max_tokens))
      g == generate_response(e, c, request.message, ChatHistory(request), lib, pick)
      model_info == get_model_info(e, config)
  IN  [args |-> [user_input |-> request.message,
                 conversation_history |-> ChatHistory(request)],
       engine_call |-> g,
       reply |-> Guarded(
         IF g.out.raised THEN g.out
         ELSE IF model_info.raised THEN model_info
         ELSE Ret(MapV("response" :> TextV(g.out.val)
                    @@ "timestamp" :> Timestamp
                    @@ "model_info" :> model_info.val)))]

\* POST /chat: the arguments of its generate_response call, what the call did,
\* and the reply.
chat(e, config, request, lib, pick) ==
  LET g == generate_response(e, config, request.message, ChatHistory(request), lib, pick)
      model_info == get_model_info(e, config)
  IN  [args |-> [user_input |-> request.message,
                 conversation_history |-> ChatHistory(request)],
       engine_call |-> g,
       reply |-> Guarded(
         IF g.out.raised THEN g.out
         ELSE IF model_info.raised THEN model_info
         ELSE Ret(MapV("response" :> TextV(g.out.val)
                    @@ "timestamp" :> Timestamp
                    @@ "model_info" :> model_info.val)))]

\* GET /model/info
model_info_handler(e, config) == Guarded(get_model_info(e, config))

\* POST /model/clear-cache
clear_model_cache(e) ==
  Guarded(Ret(MapV("status" :> StrV("success") @@ "message" :> StrV("Cache cleared"))))

\* No copy: the handler works on the manager's own dictionary.
DictAlias(ref) == ref

\* dict.copy(): a new dictionary with the same items.
DictCopy(ref) == LocalRef

\* GET /config on the heap: the reply, and the heap the handler leaves.
get_config_handler(heap, manager_config) ==
  LET source == heap[manager_config]
      config == DictCopy(manager_config)
      copied == [heap EXCEPT ![config] = source]
      popped == [copied EXCEPT ![config] = MapPop(@, "privacy")]
  IN  IF ~IsMap(source)
      THEN [reply |-> Guarded(Raise(AttributeError(
                        "'" \o TypeName(source) \o "' object has no attribute 'copy'"))),
            heap |-> heap]
      ELSE [reply |-> Guarded(Ret(popped[config])), heap |-> popped]

(***************************************************************************)
(* PersonalAI: the interactive loop of main.py.                            *)
(***************************************************************************)
\* The words that end the conversation.
QuitWords ==
  { << "q", "u", "i", "t" >>, << "e", "x", "i", "t" >>, << "b", "y", "e" >> }

\* What input() raises at the end of the input, and what Ctrl-C raises.
EOFError == [type |-> "EOFError", msg |-> "EOF when reading a line"]
KeyboardInterrupt == [type |-> "KeyboardInterrupt", msg |-> ""]

\* A loop that also ends at the end of the input.
LoopBreaksOnEOF == { "KeyboardInterrupt", "EOFError" }

\* The exceptions whose except clause breaks out of the loop.
LoopBreaks == { "KeyboardInterrupt" }

\* The end of the try block, g being the generate_response call it made:
\* Ctrl-C during the call raises out of it, otherwise the response is printed.
turn_after_call(e, user_input, g, interrupted) ==
  [calls |-> << user_input >>,
   out |-> IF interrupted THEN Raise(KeyboardInterrupt)
           ELSE IF g.out.raised THEN g.out
           ELSE Ret("printed"),
   engine |-> IF interrupted THEN e ELSE after_generate(e, g)]

\* The try block once the line is read and stripped.
turn_on_line(e, config, user_input, lib, pick, interrupted) ==
  IF Lower(user_input) \in QuitWords
  THEN [calls |-> << >>, out |-> Ret("break"), engine |-> e]
  ELSE IF user_input = << >>
  THEN [calls |-> << >>, out |-> Ret("continue"), engine |-> e]
  ELSE turn_after_call(e, user_input,
                       generate_response(e, config, user_input, << >>, lib, pick),
                       interrupted)

\* The try block of one turn of the loop.  prompt is the outcome of
\* input("You: "); interrupted says that Ctrl-C arrives while the engine
\* generates.  The result: the arguments of the generate_response calls made,
\* how the block ends ("break", "continue", "printed", or an exception), and
\* the engine after the block.
turn_body(e, config, prompt, lib, pick, interrupted) ==
  IF prompt.raised THEN [calls |-> << >>, out |-> prompt, engine |-> e]
  ELSE turn_on_line(e, config, Strip(prompt.val), lib, pick, interrupted)

\* The two except clauses around b, the outcome of the try block: whether the
\* loop is left, and whether the error was reported ("Sorry, I encountered an
\* error").
turn_excepts(b) ==
  [calls |-> b.calls, engine |-> b.engine,
   breaks |-> IF b.out.raised THEN b.out.exc.type \in LoopBreaks
              ELSE b.out.val = "break",
   reported |-> b.out.raised /\ b.out.exc.type \notin LoopBreaks]

\* One turn of `while True`: the try block and its two except clauses.
interactive_turn(e, config, prompt, lib, pick, interrupted) ==
  turn_excepts(turn_body(e, config, prompt, lib, pick, interrupted))

(***************************************************************************)
(* The inputs of the model.                                                *)
(***************************************************************************)
\* The user inputs: blank ones, ones with a keyword of one group, ones with
\* keywords of two groups, and ones with none.
UserInputs ==
  { << >>,
    << " ", "\t", "\n" >>,
    << " ", "H", "i", " " >>,
    << "H", "E", "L", "L", "O" >>,
    << "t", "h", "i", "s" >>,
    << "o", "k" >>,
    << "h", "o", "w", " ", "a", "r", "e", " ", "y", "o", "u" >>,
    << "h", "e", "y", " ", "h", "o", "w", " ", "a", "r", "e", " ", "y", "o", "u" >>,
    << "H", "e", "l", "p" >>,
    << "h", "e", "l", "p", " ", "h", "e", "y" >>,
    << "H", "o", "w", " ", "a", "r", "e", " ", "y", "o", "u", " ", "h", "e", "l", "p" >>,
    << "w", "h", "a", "t", " ", "c", "a", "n", " ", "y", "o", "u", " ", "d", "o", "?" >> }

\* The messages of the chat requests.
ChatMessages ==
  { << " ", "\t", "\n" >>,
    << " ", "H", "i", " " >>,
    << "o", "k" >>,
    << "H", "e", "l", "p" >> }

\* What the library does on one generation: a step raises, or decode returns
\* the text.
LibOutcomes ==
  { [fails |-> "encode", text |-> << >>],
    [fails |-> "generate", text |-> << >>],
    [fails |-> "none", text |-> << " ", "\n" >>],
    [fails |-> "none", text |-> << " ", "O", "K", "\n" >>] }

\* The draws of random.choice.
Picks == 1..Len(FallbackResponses)

\* The library when it is not called.
NoLib == [fails |-> "none", text |-> << >>]

\* What one generate_response call draws: the library's outcome when the model
\* is loaded, the choice of random.choice when it is not.
Draws(e) ==
  IF e.model = "None"
  THEN { [lib |-> NoLib, pick |-> p] : p \in Picks }
  ELSE { [lib |-> l, pick |-> 1] : l \in LibOutcomes }

\* The i-th message of a conversation.
Message(i) ==
  [role |-> IF i % 2 = 1 THEN << "u", "s", "e", "r" >>
            ELSE << "a", "s", "s", "i", "s", "t", "a", "n", "t" >>,
   content |-> << "m", ToString(i) >>]

\* The lengths of the histories sent with a chat request.
HistoryLengths == { 0, 2 }

ChatRequests ==
  { [message |-> m, conversation_history |-> [i \in 1..n |-> Message(i)],
     temperature |-> NoneV, max_tokens |-> NoneV] :
    m \in ChatMessages, n \in HistoryLengths }

\* The lengths of the histories around the two windows: none, fewer than five,
\* between five and ten, and more than ten messages.
WindowLengths == { 0, 2, 6, 11 }

\* The temperature and max_tokens fields of a request body.
RequestOptions ==
  { [temperature |-> NoneV, max_tokens |-> NoneV],
    [temperature |-> FloatV(19, 10), max_tokens |-> NoneV],
    [temperature |-> NoneV, max_tokens |-> IntV(1)] }

\* Chat requests with long histories and with generation options.
WindowRequests ==
  { [message |-> m, conversation_history |-> [i \in 1..n |-> Message(i)],
     temperature |-> o.temperature, max_tokens |-> o.max_tokens] :
    m \in { << " ", "\t", "\n" >>, << " ", "H", "i", " " >> },
    n \in WindowLengths, o \in RequestOptions }

\* set_value calls, << key_path, value >>, on the values validate_config tests.
RangeCalls ==
  { << << "model", ".", "temperature" >>, FloatV(-1, 10) >>,
    << << "model", ".", "temperature" >>, IntV(2) >>,
    << << "model", ".", "temperature" >>, FloatV(21, 10) >>,
    << << "model", ".", "temperature" >>, NaNV >>,
    << << "api", ".", "port" >>, IntV(0) >>,
    << << "api", ".", "port" >>, IntV(65535) >>,
    << << "api", ".", "port" >>, IntV(65536) >> }

\* set_value calls on the values the engine reads.
EngineCalls ==
  { << << "model", ".", "device" >>, StrV("tpu") >>,
    << << "model", ".", "device" >>, StrV("auto") >>,
    << << "model" >>, IntV(5) >> }

\* set_value calls below keys that are absent, and below a key that holds a
\* string.
NestedCalls ==
  { << << "a", ".", "b", ".", "c" >>, IntV(1) >>,
    << << "a", ".", "b" >>, NoneV >>,
    << << "model", ".", "name", ".", "x" >>, IntV(1) >> }

\* set_value calls on the generation parameters.
GenerationCalls ==
  { << << "model", ".", "temperature" >>, FloatV(1, 10) >>,
    << << "inference", ".", "max_new_tokens" >>, IntV(8) >> }

SetValueCalls == RangeCalls \cup EngineCalls \cup NestedCalls \cup GenerationCalls

\* The get_value calls of the model: << key_path, default >>.
GetValueCalls ==
  { << << "model", ".", "temperature" >>, NoneV >>,
    << << "model", ".", "name", ".", "x" >>, IntV(1) >>,
    << << "api", ".", "port" >>, IntV(80) >>,
    << << "data", ".", "preprocessing", ".", "lowercase" >>, NoneV >>,
    << << "privacy", ".", "", "x" >>, StrV("d") >>,
    << << "logging", "." >>, NoneV >> }

\* The lines typed at the prompt, as input() returns them.
Lines ==
  { << "q", "u", "i", "t" >>,
    << " ", "E", "x", "i", "t", " " >>,
    << "B", "Y", "E", "\t" >>,
    << >>,
    << " ", "\t" >>,
    << " ", "H", "i", " " >>,
    << "b", "y", "e", " ", "b", "y", "e" >>,
    << "o", "k" >> }

\* What input("You: ") does: it returns a line, or raises at the end of the
\* input or on Ctrl-C.
PromptOutcomes ==
  { Ret(l) : l \in Lines } \cup { Raise(EOFError), Raise(KeyboardInterrupt) }

\* The configuration file at a reload: missing, unreadable, or holding a
\* document (an empty file is the document None).
FileStates ==
  { [exists |-> FALSE, readable |-> FALSE, content |-> NoneV],
    [exists |-> TRUE, readable |-> FALSE, content |-> NoneV],
    [exists |-> TRUE, readable |-> TRUE, content |-> FixtureConfig],
    [exists |-> TRUE, readable |-> TRUE, content |-> NoneV] }

\* The inputs of the generations that follow an edit of the configuration.
FewInputs == { << "o", "k" >>, << " ", "H", "i", " " >> }

\* The configurations the manager starts with.
InitialConfigs == { DefaultConfig, FixtureConfig }

\* What torch may report: whether cuda and mps are available.
Availabilities == [cuda : BOOLEAN, mps : BOOLEAN]

(***************************************************************************)
(* The state machine.                                                      *)
(***************************************************************************)
Init ==
  /\ \E c \in InitialConfigs : store = [r \in Refs |-> IF r = "cfg" THEN c ELSE Free]
  /\ mgrRef = "cfg"
  /\ engine = NoEngine
  /\ last = [op |-> "ConfigManager"]
  /\ nSet = 0
  /\ loop = "idle"

\* The configuration the engine reads: self.config.
EngineConfig == store[engine.config]

\* PersonalAI.initialize(): AIEngine(self.config_manager)
Construct ==
  /\ engine.phase = "absent"
  /\ \E failAt \in LoadOutcomes, available \in Availabilities :
       LET r == AIEngineInit(mgrRef, store[mgrRef], available, failAt)
       IN  /\ engine' = IF r.raised THEN [engine EXCEPT !.phase = "failed"] ELSE r.val
           /\ last' = [op |-> "AIEngine", failAt |-> failAt, available |-> available,
                       load_raised |-> ~r.raised /\ failAt # "ok",
                       raised |-> r.raised]
  /\ UNCHANGED << store, mgrRef, nSet, loop >>

\* The tests force fallback mode on a constructed engine.
ForceFallback ==
  /\ engine.phase = "ready"
  /\ engine' = [engine EXCEPT !.model = "None", !.tokenizer = "None"]
  /\ last' = [op |-> "force_fallback"]
  /\ UNCHANGED << store, mgrRef, nSet, loop >>

\* The state a generate_response call leaves, g being what the call did.
GenerateStep(g, user_input, d) ==
  /\ engine' = after_generate(engine, g)
  /\ last' = [op |-> "generate_response", user_input |-> user_input,
              lib |-> IF g.invoked = "model" THEN d.lib ELSE NoLib,
              call |-> g]

\* ai_engine.generate_response(user_input), as the interactive loop and the
\* tests call it.
GenerateResponse(inputs) ==
  /\ engine.phase = "ready"
  /\ \E user_input \in inputs, d \in Draws(engine) :
       GenerateStep(generate_response(engine, EngineConfig, user_input, << >>,
                                      d.lib, d.pick),
                    user_input, d)
  /\ UNCHANGED << store, mgrRef, nSet, loop >>

Health ==
  /\ engine.phase = "ready"
  /\ last' = [op |-> "GET /health", reply |-> health_check(engine, EngineConfig)]
  /\ UNCHANGED << store, mgrRef, engine, nSet, loop >>

\* The state a chat request leaves, c being what the handler did.
ChatStep(c, request, d) ==
  /\ engine' = after_generate(engine, c.engine_call)
  /\ last' = [op |-> "POST /chat", request |-> request, args |-> c.args,
              lib |-> IF c.engine_call.invoked = "model" THEN d.lib ELSE NoLib,
              call |-> c.engine_call, reply |-> c.reply]

Chat(requests) ==
  /\ engine.phase = "ready"
  /\ \E request \in requests, d \in Draws(engine) :
       ChatStep(chat(engine, EngineConfig, request, d.lib, d.pick), request, d)
  /\ UNCHANGED << store, mgrRef, nSet, loop >>

ModelInfo ==
  /\ engine.phase = "ready"
  /\ last' = [op |-> "GET /model/info", reply |-> model_info_handler(engine, EngineConfig)]
  /\ UNCHANGED << store, mgrRef, engine, nSet, loop >>

ClearCache ==
  /\ engine.phase = "ready"
  /\ last' = [op |-> "POST /model/clear-cache", reply |-> clear_model_cache(engine),
              emptied |-> clear_cache(engine)]
  /\ UNCHANGED << store, mgrRef, engine, nSet, loop >>

GetConfig ==
  /\ engine.phase = "ready"
  /\ LET heap == [r \in Refs \cup { LocalRef } |->
                    IF r \in Refs THEN store[r] ELSE NoneV]
         h == get_config_handler(heap, mgrRef)
     IN  /\ store' = [r \in Refs |-> h.heap[r]]
         /\ last' = [op |-> "GET /config", reply |-> h.reply]
  /\ UNCHANGED << mgrRef, engine, nSet, loop >>

GetValue ==
  /\ \E c \in GetValueCalls :
       last' = [op |-> "get_value", key_path |-> c[1], default |-> c[2],
                out |-> get_value(store[mgrRef], c[1], c[2])]
  /\ UNCHANGED << store, mgrRef, engine, nSet, loop >>

SetValue(calls) ==
  /\ nSet < MaxSetValues
  /\ \E c \in calls :
       LET r == set_value(store[mgrRef], c[1], c[2])
       IN  /\ store' = IF r.raised THEN store ELSE [store EXCEPT ![mgrRef] = r.val]
           /\ last' = [op |-> "set_value", key_path |-> c[1], value |-> c[2],
                       raised |-> r.raised]
  /\ nSet' = nSet + 1
  /\ UNCHANGED << mgrRef, engine, loop >>

ValidateConfig ==
  /\ last' = [op |-> "validate_config", out |-> validate_config(store[mgrRef])]
  /\ UNCHANGED << store, mgrRef, engine, nSet, loop >>

\* main(): after initialize(), start_interactive_mode() enters its loop.
StartInteractive ==
  /\ engine.phase = "ready"
  /\ loop = "idle"
  /\ loop' = "running"
  /\ last' = [op |-> "start_interactive_mode"]
  /\ UNCHANGED << store, mgrRef, engine, nSet >>

\* What a turn leaves on record: what the prompt did, the draws that mattered,
\* the calls made and whether an error was reported.
TurnRecord(t, prompt, d, interrupted) ==
  [op |-> "turn", prompt |-> prompt,
   interrupted |-> t.calls # << >> /\ interrupted,
   draw |-> IF t.calls # << >> THEN d ELSE [lib |-> NoLib, pick |-> 1],
   calls |-> t.calls, reported |-> t.reported]

\* The state a turn with outcome t leaves.
TurnStep(t, prompt, d, interrupted) ==
  /\ loop' = IF t.breaks THEN "ended" ELSE "running"
  /\ last' = TurnRecord(t, prompt, d, interrupted)
  /\ engine' = t.engine

\* One turn of the loop of start_interactive_mode.
Turn ==
  /\ loop = "running"
  /\ \E prompt \in PromptOutcomes, d \in Draws(engine), interrupted \in BOOLEAN :
       TurnStep(interactive_turn(engine, EngineConfig, prompt, d.lib, d.pick, interrupted),
                prompt, d, interrupted)
  /\ UNCHANGED << store, mgrRef, nSet >>

\* The references the engine holds.
InUse == IF engine.config \in Refs THEN { engine.config } ELSE { }

\* config_manager.reload_config()
Reload ==
  /\ \E file \in FileStates :
       LET r == reload_config(store, mgrRef, InUse, file)
       IN  /\ store' = r.heap
           /\ mgrRef' = r.ref
           /\ last' = [op |-> "reload_config", file |-> file]
  /\ UNCHANGED << engine, nSet, loop >>

Next ==
  \/ Construct
  \/ ForceFallback
  \/ GenerateResponse(UserInputs)
  \/ Health
  \/ Chat(ChatRequests \cup WindowRequests)
  \/ ModelInfo
  \/ ClearCache
  \/ GetConfig
  \/ GetValue
  \/ SetValue(SetValueCalls)
  \/ ValidateConfig
  \/ StartInteractive
  \/ Turn
  \/ Reload

Spec == Init /\ [][Next]_vars

\* The configuration manager on its own.
NextConfig ==
  \/ GetValue
  \/ SetValue(SetValueCalls)
  \/ ValidateConfig

SpecConfig == Init /\ [][NextConfig]_vars

\* The engine, constructed from a manager whose configuration may be edited.
NextEngine ==
  \/ Construct
  \/ ForceFallback
  \/ GenerateResponse(UserInputs)
  \/ SetValue(EngineCalls)

SpecEngine == Init /\ [][NextEngine]_vars

\* The HTTP service over the engine.
NextApi ==
  \/ Construct
  \/ ForceFallback
  \/ Health
  \/ Chat(ChatRequests)
  \/ ModelInfo
  \/ ClearCache
  \/ GetConfig
  \/ SetValue(EngineCalls)

SpecApi == Init /\ [][NextApi]_vars

\* The manager edited and reloaded while an engine built from it generates.
NextReload ==
  \/ Construct
  \/ GenerateResponse(FewInputs)
  \/ SetValue(GenerationCalls)
  \/ Reload

SpecReload == Init /\ [][NextReload]_vars

\* The HTTP service when nothing but API requests reaches the engine.
NextRequests ==
  \/ Construct
  \/ Health
  \/ Chat(ChatRequests)
  \/ ModelInfo
  \/ ClearCache
  \/ GetConfig

SpecRequests == Init /\ [][NextRequests]_vars

\* The chat endpoint, with long histories and generation options in the
\* requests and edits of the configured generation parameters.
NextChat ==
  \/ Construct
  \/ Chat(WindowRequests)
  \/ SetValue(GenerationCalls)

SpecChat == Init /\ [][NextChat]_vars

\* The interactive program: the engine is constructed, then the loop runs.
NextLoop ==
  \/ Construct
  \/ StartInteractive
  \/ Turn

SpecLoop == Init /\ [][NextLoop]_vars

(***************************************************************************)
(* The claims.                                                             *)
(***************************************************************************)
\* Every character of s is whitespace (the empty text included).
OnlyWhitespace(s) == \A i \in 1..Len(s) : s[i] \in Whitespace

\* The chat reply's model_info of an engine in fallback mode.
FallbackInfo == MapV("status" :> StrV("fallback") @@ "model_name" :> StrV("none"))

\* C1: generate_response returns the clarification message for every input
\* that is empty or holds only whitespace, with the model loaded or not, and
\* invokes neither the model nor the keyword fallback.
C1_BlankInputClarified ==
  (last.op = "generate_response" /\ OnlyWhitespace(last.user_input))
    => /\ last.call.out = Ret(ClarificationMessage)
       /\ last.call.invoked = "none"
       /\ last.call.calls = << >>
       /\ ~last.call.caught

\* C1's case: a whitespace-only, non-empty input answered by a loaded engine.
C1_Witness ==
  /\ last.op = "generate_response"
  /\ last.user_input = << " ", "\t", "\n" >>
  /\ engine.model = "loaded"
  /\ last.call.out = Ret(ClarificationMessage)

\* C2: when a step of _load_model raises, AIEngine(...) still returns, with
\* model and tokenizer None, the canned responses defined, get_model_info and
\* GET /model/info reporting status "fallback" and model_name "none", and
\* GET /health reporting model_status "fallback".
C2_LoadFailureFallsBack ==
  (last.op = "AIEngine" /\ last.load_raised)
    => /\ ~last.raised
       /\ engine.phase = "ready"
       /\ engine.model = "None"
       /\ engine.tokenizer = "None"
       /\ engine.fallback_responses = Assigned(FallbackResponses)
       /\ get_model_info(engine, EngineConfig) = Ret(FallbackInfo)
       /\ model_info_handler(engine, EngineConfig) = Response(FallbackInfo)
       /\ LET health == health_check(engine, EngineConfig)
          IN  /\ health.kind = "response"
              /\ health.body.m["model_status"] = StrV("fallback")

\* C2's case: the model load raised after the tokenizer had loaded.
C2_Witness ==
  /\ last.op = "AIEngine"
  /\ last.failAt = "model"
  /\ last.load_raised
  /\ engine.phase = "ready"
  /\ engine.tokenizer = "None"

\* The canned responses, as a set.
CannedSet == { FallbackResponses[i] : i \in 1..Len(FallbackResponses) }

InRange(v, lo, hi) ==
  CASE v.kind = "int" -> lo <= v.n /\ v.n <= hi
    [] v.kind = "bool" -> lo <= (IF v.b THEN 1 ELSE 0) /\ (IF v.b THEN 1 ELSE 0) <= hi
    [] v.kind = "float" -> lo * v.den <= v.num /\ v.num <= hi * v.den
    [] OTHER -> FALSE

\* config[section][key] is there whenever config[section] is.
KeyWithSection(config, section, key) ==
  section \in Keys(config)
    => (IsMap(config.m[section]) /\ key \in Keys(config.m[section]))

\* The configuration holds the five required sections.
HasRequiredSections(config) ==
  \A i \in 1..Len(required_sections) : required_sections[i] \in Keys(config)

\* C4: validate_config returns True exactly when the five required sections
\* are present, 0 <= model.temperature <= 2 and 1 <= api.port <= 65535, and
\* never raises, for every configuration in which model.temperature and
\* api.port exist when their sections do.
C4_ValidExactlyInRange ==
  LET config == store[mgrRef]
  IN  (last.op = "validate_config" /\ IsMap(config)
         /\ KeyWithSection(config, "model", "temperature")
         /\ KeyWithSection(config, "api", "port"))
        => /\ ~last.out.raised
           /\ last.out.val
                <=> (/\ HasRequiredSections(config)
                     /\ InRange(config.m["model"].m["temperature"], 0, 2)
                     /\ InRange(config.m["api"].m["port"], 1, 65535))

\* C4 on the temperatures that are ordered numbers: every one but NaN.
C4_ValidExactlyInRangeOrdered ==
  LET config == store[mgrRef]
  IN  (KeyWithSection(config, "model", "temperature")
         /\ ("model" \in Keys(config) => config.m["model"].m["temperature"] # NaNV))
        => C4_ValidExactlyInRange

\* The operations that are handlers of the API.
HandlerOps ==
  { "GET /health", "POST /chat", "GET /model/info", "POST /model/clear-cache",
    "GET /config" }

\* C5: every failure raised inside an API handler is caught by the handler and
\* becomes an HTTP 500 whose detail is the error's string; no exception
\* escapes a handler.
C5_HandlersCatchEveryFailure ==
  last.op \in HandlerOps
    => /\ last.reply.kind \in { "response", "http_exception" }
       /\ last.reply.kind = "http_exception" => last.reply.status = 500

\* No keyword of _fallback_response occurs in the input.
NoKeyword(s) ==
  ~ContainsAny(Lower(s), GreetingWords \cup HowAreYouWords \cup CapabilitiesWords)

\* The outcome of the last generate_response is a returned text.
ReturnsText == ~last.call.out.raised /\ last.call.out.val \in Seq(STRING)

\* What C6 says of the state after a generate_response call.
C6_AfterCall ==
  last.op = "generate_response"
    => /\ ReturnsText
       /\ last.call.caught => last.call.out = Ret(ErrorMessage)
       /\ (engine.model # "None" /\ ~OnlyWhitespace(last.user_input)
             /\ last.lib.fails # "none")
            => last.call.out = Ret(ErrorMessage)
       /\ (engine.model # "None" /\ ~OnlyWhitespace(last.user_input)
             /\ Lookup(EngineConfig, "model", "max_length").raised)
            => last.call.out = Ret(ErrorMessage)
       /\ (engine.model = "None" /\ ~engine.fallback_responses.set
             /\ ~OnlyWhitespace(last.user_input) /\ NoKeyword(last.user_input))
            => last.call.out = Ret(ErrorMessage)

\* C6: generate_response returns a text and never raises; an exception in the
\* model path or in the fallback path (a fallback engine without its canned
\* responses included) becomes the fixed apology; and the call leaves the
\* engine (model, tokenizer, config) as it was.
C6_NeverRaises ==
  /\ []C6_AfterCall
  /\ [][last'.op = "generate_response" => (engine' = engine /\ store' = store)]_vars

\* C6's case: a forced-fallback engine without canned responses apologises.
C6_Witness ==
  /\ last.op = "generate_response"
  /\ engine.model = "None"
  /\ ~engine.fallback_responses.set
  /\ last.call.caught
  /\ last.call.out = Ret(ErrorMessage)

\* The device the engine is to use, given model.device and what torch offers.
ExpectedDevice(device_config, available) ==
  IF device_config # StrV("auto") THEN device_config
  ELSE IF available.cuda THEN StrV("cuda")
  ELSE IF available.mps THEN StrV("mps")
  ELSE StrV("cpu")

\* C7: the device is model.device verbatim unless that is "auto", and then it
\* is cuda if available, else mps if available, else cpu; it is chosen at
\* construction, whether the model then loads or not, and no later operation
\* changes it.
C7_DeviceChosenOnce ==
  /\ [](last.op = "AIEngine" /\ ~last.raised
          => engine.device
               = ExpectedDevice(store[mgrRef].m["model"].m["device"], last.available))
  /\ [][engine.phase = "ready" => engine'.device = engine.device]_vars

\* C7's case: device "auto" with cuda and mps both available, the model load
\* failing.
C7_Witness ==
  /\ last.op = "AIEngine"
  /\ last.load_raised
  /\ last.available = [cuda |-> TRUE, mps |-> TRUE]
  /\ store[mgrRef].m["model"].m["device"] = StrV("auto")
  /\ engine.device = StrV("cuda")

\* C8: GET /config returns every top-level section of the configuration but
\* 'privacy', and leaves the manager's (and the engine's) configuration as it
\* was, 'privacy' included.
C8_ConfigReplyLeavesConfig ==
  [][last'.op = "GET /config"
       => /\ store' = store
          /\ last'.reply.kind = "response"
          /\ Keys(last'.reply.body) = Keys(store[mgrRef]) \ { "privacy" }
          /\ \A k \in Keys(last'.reply.body) :
               last'.reply.body.m[k] = store[mgrRef].m[k]]_vars

\* C8's case: a configuration with a 'privacy' section was served without it,
\* and the engine's configuration still holds it.
C8_Witness ==
  /\ last.op = "GET /config"
  /\ last.reply.kind = "response"
  /\ "privacy" \notin Keys(last.reply.body)
  /\ "privacy" \in Keys(store[engine.config])
  /\ engine.config = mgrRef

\* The value n keys down the path from config, when every key so far was a
\* key of a dict: << value >>, and << >> otherwise.
RECURSIVE Reached(_, _, _)
Reached(config, keys, n) ==
  IF n = 0 THEN << config >>
  ELSE LET above == Reached(config, keys, n - 1)
       IN  IF above # << >> /\ IsMap(above[1]) /\ keys[n] \in Keys(above[1])
           THEN << above[1].m[keys[n]] >>
           ELSE << >>

\* What C9 says of the state after a get_value call.
C9_AfterCall ==
  last.op = "get_value"
    => LET keys == Split(last.key_path)
           found == Reached(store[mgrRef], keys, Len(keys))
       IN  /\ ~last.out.raised
           /\ last.out.val = IF found # << >> THEN found[1] ELSE last.default

\* C9: get_value returns the value at the dotted path when every key on the
\* path exists in nested dicts, and the default otherwise; it does not raise
\* on a missing key or on a value that is no dict, and it leaves the
\* configuration as it was.
C9_GetValueOrDefault ==
  /\ []C9_AfterCall
  /\ [][last'.op = "get_value" => store' = store]_vars

\* C9's case: a path through a string returns the default.
C9_Witness ==
  /\ last.op = "get_value"
  /\ last.key_path = << "model", ".", "name", ".", "x" >>
  /\ store[mgrRef].m["model"].m["name"].kind = "str"
  /\ last.out = Ret(last.default)

\* The engine with its model loaded.
AsLoaded(e) == [e EXCEPT !.model = "loaded", !.tokenizer = "loaded"]

\* C10 as stated: a chat reply made in fallback mode is one a loaded engine
\* could make: but for the response text, which may be any text, every field
\* is the one a loaded engine sends.
C10_FallbackReplyLikeLoaded ==
  (last.op = "POST /chat" /\ last.reply.kind = "response" /\ engine.model = "None")
    => \E lib \in LibOutcomes :
         LET loaded == chat(AsLoaded(engine), EngineConfig, last.request, lib, 1).reply
         IN  /\ loaded.kind = "response"
             /\ Keys(loaded.body) = Keys(last.reply.body)
             /\ \A k \in Keys(loaded.body) \ { "response" } :
                  loaded.body.m[k] = last.reply.body.m[k]

\* C10, amended: a chat reply carries response, timestamp and model_info; in
\* fallback mode model_info is {status: fallback, model_name: none}, and with
\* a loaded model its status is "loaded": model_info tells the two apart.
C10_ModelInfoTellsMode ==
  (last.op = "POST /chat" /\ last.reply.kind = "response")
    => LET body == last.reply.body
       IN  /\ Keys(body) = { "response", "timestamp", "model_info" }
           /\ engine.model = "None" => body.m["model_info"] = FallbackInfo
           /\ engine.model # "None"
                => body.m["model_info"].m["status"] = StrV("loaded")

\* C10's case: a fallback engine answered a chat request.
C10_Witness ==
  /\ last.op = "POST /chat"
  /\ last.reply.kind = "response"
  /\ engine.model = "None"
  /\ last.call.invoked = "fallback"
  /\ last.reply.body.m["model_info"].m["status"] = StrV("fallback")

\* A default no configuration holds.
Missing == StrV("<missing>")

\* The keys of a path but the last: keys[:-1].
Intermediates(keys) == SubSeq(keys, 1, Len(keys) - 1)

\* Every intermediate value of the path that exists in config is a mapping: the
\* walk down keys[:-1] from a mapping ends at a mapping or at an absent key.
RECURSIVE MappingsOrAbsent(_, _)
MappingsOrAbsent(config, keys) ==
  /\ IsMap(config)
  /\ \/ keys = << >>
     \/ Head(keys) \notin Keys(config)
     \/ MappingsOrAbsent(config.m[Head(keys)], Tail(keys))

\* One of the two key sequences starts the other.
IsPrefix(p, q) == Len(p) <= Len(q) /\ SubSeq(q, 1, Len(p)) = p

Related(p, q) == IsPrefix(p, q) \/ IsPrefix(q, p)

\* The paths whose values are compared before and after a set_value call.
ProbePaths == { c[1] : c \in GetValueCalls \cup SetValueCalls }

\* The intermediate keys of the path that config does not reach: the lengths n
\* of the prefixes keys[:n] that the walk from config does not find.
AbsentPrefixes(config, keys) ==
  { n \in 1..(Len(keys) - 1) : Walk(config, SubSeq(keys, 1, n)).raised }

\* C11: a set_value call on a path whose existing intermediate values are all
\* mappings or absent does not raise; get_value of the path then returns the
\* value written; every intermediate key that was missing now holds a mapping
\* with the next key of the path as its only key; and get_value of every path
\* that neither starts the written path nor continues it returns what it
\* returned before the call.
C11_SetThenGet ==
  [][ ( /\ last'.op = "set_value"
        /\ MappingsOrAbsent(store[mgrRef], Intermediates(Split(last'.key_path))) )
      => LET keys == Split(last'.key_path)
             before == store[mgrRef]
             after == store'[mgrRef]
         IN  /\ ~last'.raised
             /\ get_value(after, last'.key_path, Missing) = Ret(last'.value)
             /\ \A n \in AbsentPrefixes(before, keys) :
                  LET made == Walk(after, SubSeq(keys, 1, n))
                  IN  /\ ~made.raised
                      /\ IsMap(made.val)
                      /\ Keys(made.val) = { keys[n + 1] }
             /\ \A p \in ProbePaths :
                  ~Related(Split(p), keys)
                    => get_value(after, p, Missing) = get_value(before, p, Missing)
    ]_vars

\* set_value('a.b.c', 1) on a configuration without 'a' has run: 'a' and 'a.b'
\* were created, and the temperature is still there.
C11_Witness ==
  /\ last.op = "set_value"
  /\ last.key_path = << "a", ".", "b", ".", "c" >>
  /\ ~last.raised
  /\ Walk(store[mgrRef], << "a" >>) = Ret(MapV([k \in { "b" } |-> MapV([j \in { "c" } |-> IntV(1)])]))
  /\ get_value(store[mgrRef], << "model", ".", "temperature" >>, Missing) # Ret(Missing)

\* The text the turn works on: the line typed, stripped.
TurnText == Strip(last.prompt.val)

\* A keyboard interrupt was raised in the turn, at the prompt or during the
\* generation.
TurnInterrupted ==
  \/ last.prompt.raised /\ last.prompt.exc.type = "KeyboardInterrupt"
  \/ last.interrupted

\* The turn read a line that says quit, exit or bye.
TurnQuits == ~last.prompt.raised /\ Lower(TurnText) \in QuitWords

\* C12: the interactive loop ends in a turn exactly when the line read, stripped
\* and lower-cased, is quit, exit or bye, or a keyboard interrupt is raised in the
\* turn, and once ended it stays ended; a blank line makes no generate_response
\* call; every other line makes exactly one call, with the stripped text; the end
\* of the input at the prompt is reported and the loop goes on.
C12_LoopEndsOnQuitOrInterrupt ==
  /\ [](last.op = "turn"
          => /\ loop \in { "running", "ended" }
             /\ (loop = "ended") <=> (TurnQuits \/ TurnInterrupted)
             /\ last.prompt.raised => last.calls = << >>
             /\ (~last.prompt.raised /\ (TurnQuits \/ TurnText = << >>))
                  => last.calls = << >> /\ ~last.reported
             /\ (~last.prompt.raised /\ ~TurnQuits /\ TurnText # << >>)
                  => last.calls = << TurnText >>
             /\ (last.prompt.raised /\ ~TurnInterrupted)
                  => last.reported /\ loop = "running"
             /\ (~last.prompt.raised /\ ~TurnInterrupted) => ~last.reported)
  /\ [][ /\ loop # "running" => (loop' = loop \/ (loop = "idle" /\ loop' = "running"))
         /\ (loop = "running" /\ loop' # "running") => (loop' = "ended" /\ last'.op = "turn")
       ]_vars

\* The loop went on after the end of the input was reported.
C12_Witness ==
  /\ last.op = "turn"
  /\ last.prompt = Raise(EOFError)
  /\ last.reported
  /\ loop = "running"

\* The loop ended on " Exit ", with no call to the engine.
C12_WitnessQuit ==
  /\ last.op = "turn"
  /\ last.prompt = Ret(<< " ", "E", "x", "i", "t", " " >>)
  /\ last.calls = << >>
  /\ loop = "ended"

\* Ctrl-C during the generation ended the loop, after the one call.
C12_WitnessInterrupted ==
  /\ last.op = "turn"
  /\ last.interrupted
  /\ last.calls = << << "H", "i" >> >>
  /\ loop = "ended"

\* The smaller of two numbers.
Min(a, b) == IF a <= b THEN a ELSE b

\* The last min(k, n) of the n messages of a history, in their order, each as
\* "role: content".
Rendered(history, k) ==
  LET n == Len(history)
      kept == Min(k, n)
  IN  [i \in 1..kept |->
         history[n - kept + i].role \o << ":", " " >> \o history[n - kept + i].content]

\* The texts, each followed by a space, and then the message.
RECURSIVE PromptOf(_, _)
PromptOf(parts, message) ==
  IF parts = << >> THEN message
  ELSE Head(parts) \o << " " >> \o PromptOf(Tail(parts), message)

\* C13: POST /chat passes to generate_response the message and the last
\* min(10, n) of the n messages of conversation_history, rendered as
\* "role: content" in their order; and when the model is loaded and the message
\* is not blank, the text given to the tokenizer and the model is the last
\* min(5, n) rendered messages, separated by spaces, followed by the message
\* (the message alone when the history is empty).
C13_PromptIsLastFiveThenMessage ==
  last.op = "POST /chat"
    => /\ last.args.user_input = last.request.message
       /\ last.args.conversation_history = Rendered(last.request.conversation_history, 10)
       /\ (engine.model # "None" /\ ~OnlyWhitespace(last.request.message))
            => /\ last.call.calls # << >>
               /\ \A i \in 1..Len(last.call.calls) :
                    last.call.calls[i].full_input
                      = PromptOf(Rendered(last.request.conversation_history, 5),
                                 last.request.message)

\* A loaded engine answered a chat request with eleven messages of history: ten
\* were passed on, and the prompt starts with the seventh.
C13_Witness ==
  /\ last.op = "POST /chat"
  /\ Len(last.request.conversation_history) = 11
  /\ Len(last.args.conversation_history) = 10
  /\ engine.model # "None"
  /\ Len(last.call.calls) = 2
  /\ SubSeq(last.call.calls[2].full_input, 1, 8)
       = << "u", "s", "e", "r", ":", " ", "m", "7" >>

\* The request without its temperature and max_tokens.
Plain(request) == [request EXCEPT !.temperature = NoneV, !.max_tokens = NoneV]

\* The generation parameters the configuration holds.
ConfiguredParameters(config) ==
  [max_new_tokens |-> Lookup(config, "inference", "max_new_tokens").val,
   temperature |-> Lookup(config, "model", "temperature").val,
   top_p |-> Lookup(config, "model", "top_p").val,
   do_sample |-> Lookup(config, "inference", "do_sample").val]

\* C14: whatever the library and random.choice do, a chat request and the same
\* request without temperature and max_tokens make the same generate_response
\* call, with the same library calls and the same reply; and the parameters of
\* every model.generate call are the values of model.temperature, model.top_p,
\* inference.max_new_tokens and inference.do_sample in the configuration.
C14_RequestOptionsIgnored ==
  last.op = "POST /chat"
    => /\ \A d \in Draws(engine) :
            chat(engine, EngineConfig, last.request, d.lib, d.pick)
              = chat(engine, EngineConfig, Plain(last.request), d.lib, d.pick)
       /\ \A i \in 1..Len(last.call.calls) :
            last.call.calls[i].fn = "generate"
              => last.call.calls[i].params = ConfiguredParameters(EngineConfig)

\* A request with temperature 1.9 was generated with the temperature 0.1 that
\* set_value put into the configuration.
C14_Witness ==
  /\ last.op = "POST /chat"
  /\ last.request.temperature = FloatV(19, 10)
  /\ Len(last.call.calls) = 2
  /\ last.call.calls[2].params.temperature = FloatV(1, 10)

\* The status get_model_info owes to the mode of the engine.
ModeStatus(e) == StrV(IF e.model = "None" THEN "fallback" ELSE "loaded")

\* C15: under API requests alone, GET /model/info always answers, with the
\* status of the engine's mode, and no step from a constructed engine changes
\* the mode: a fallback engine stays fallback and a loaded engine stays loaded,
\* also across a chat request whose generation fails.  So the status reported
\* is the one the engine had right after construction.
C15_ModeFixedAtStartup ==
  /\ [](last.op = "GET /model/info"
          => /\ last.reply.kind = "response"
             /\ last.reply.body.m["status"] = ModeStatus(engine))
  /\ [][ engine.phase = "ready"
           => /\ engine'.phase = "ready"
              /\ ModeStatus(engine') = ModeStatus(engine)
              /\ model_info_handler(engine', store'[engine'.config])
                   = model_info_handler(engine, EngineConfig)
       ]_vars

\* A loaded engine is still loaded after a chat request whose generation
\* failed.
C15_Witness ==
  /\ last.op = "POST /chat"
  /\ last.call.caught
  /\ engine.phase = "ready"
  /\ engine.model # "None"
  /\ model_info_handler(engine, EngineConfig).body.m["status"] = StrV("loaded")

\* What a reload must leave in the manager: the document of the file, or the
\* defaults when the file is missing or cannot be read.
Reloaded(file) ==
  IF file.exists /\ file.readable THEN file.content ELSE DefaultConfig

\* C16: a constructed engine holds the very mapping the manager held at the
\* construction and never another one; until a reload the manager holds it too,
\* so what set_value writes is in the engine's configuration, which is where a
\* generation takes its parameters; reload_config leaves in the manager a newly
\* loaded value (the defaults when the file is missing or unreadable) at
\* another reference, and the engine and its mapping as they were; and a
\* set_value made while the two differ leaves the engine's mapping as it was.
C16_EngineKeepsItsMapping ==
  /\ [](last.op = "generate_response"
          => \A i \in 1..Len(last.call.calls) :
               last.call.calls[i].fn = "generate"
                 => last.call.calls[i].params = ConfiguredParameters(EngineConfig))
  /\ [][ /\ (last'.op = "AIEngine" /\ engine'.phase = "ready")
             => engine'.config = mgrRef /\ mgrRef' = mgrRef
         /\ engine.phase = "ready" => engine'.config = engine.config
         /\ (engine.phase = "ready" /\ engine.config = mgrRef
                /\ last'.op # "reload_config")
             => mgrRef' = engine.config
         /\ (engine.phase = "ready" /\ engine.config = mgrRef
                /\ last'.op = "set_value" /\ ~last'.raised)
             => get_value(store'[engine.config], last'.key_path, Missing)
                  = Ret(last'.value)
         /\ last'.op = "reload_config"
             => /\ store'[mgrRef'] = Reloaded(last'.file)
                /\ engine' = engine
                /\ engine.phase = "ready"
                     => /\ mgrRef' # engine.config
                        /\ store'[engine.config] = store[engine.config]
         /\ (engine.phase = "ready" /\ engine.config # mgrRef
                /\ last'.op = "set_value")
             => store'[engine.config] = store[engine.config]
       ]_vars

\* After a reload, set_value('model.temperature', 0.1) changed the manager's
\* configuration and not the engine's.
C16_Witness ==
  /\ engine.phase = "ready"
  /\ engine.config # mgrRef
  /\ last.op = "set_value"
  /\ ~last.raised
  /\ last.key_path = << "model", ".", "temperature" >>
  /\ get_value(store[mgrRef], last.key_path, Missing) = Ret(FloatV(1, 10))
  /\ get_value(EngineConfig, last.key_path, Missing) = Ret(FloatV(7, 10))

\* Before any reload, a generation used the temperature 0.1 that set_value
\* wrote through the manager.
C16_WitnessShared ==
  /\ engine.phase = "ready"
  /\ engine.config = mgrRef
  /\ last.op = "generate_response"
  /\ Len(last.call.calls) = 2
  /\ last.call.calls[2].params.temperature = FloatV(1, 10)

====
